---- MODULE Spec2Model ----
(***************************************************************************)
(* The rotrust chaincode: PropertyContract, TransactionContract and        *)
(* EscrowContract, packaged as one chaincode (setup-network.sh packages    *)
(* the whole chaincode directory as "rotrust-chaincode"), so the three     *)
(* contracts read and write ONE world state, keyed by the ids the callers  *)
(* pass.  Every exposed operation is one ledger transaction: it reads      *)
(* with getState, throws (nothing is written) or writes with putState.     *)
(*                                                                         *)
(* Money is counted in units of 0.005 (half a cent), so the 0.01 tolerance *)
(* of MarkConditionMet is 2 units.  Fields that no contract code ever      *)
(* reads back (address, paymentMethod, notes, timestamps, payment and      *)
(* document ids, verifier ids) are carried verbatim by the code and are    *)
(* left out of the records.                                                *)
(***************************************************************************)
EXTENDS Integers, Sequences, FiniteSets, TLC

\* ------------------------------------------------------------------ bounds
MaxHistory == 3
MaxPayments == 2
MaxDocuments == 1
MaxVerifications == 2
\* committed invocations followed after the initial ledger
MaxSteps == 3

\* ------------------------------------------------------------------ inputs
Keys == {"k1", "k2", "k3", "k4"}
Owners == {"a", "b"}
\* the value JavaScript yields for a field the record does not have
Undef == "undefined"
\* ids the callers pass when they create a record
PropertyIds == {"k1"}
TransactionIds == {"k1", "k2"}
EscrowIds == {"k3", "k4"}
\* ids passed to UpdateProperty: a property and an escrow
UpdateIds == {"k1", "k3"}
\* (buyerId, price) of CreateTransaction
TransferTerms == {[buyerId |-> "b", price |-> 4], [buyerId |-> "a", price |-> 0]}
\* (transactionId, buyerId, price, conditions) of CreateEscrow: the transfer
\* k2, and transfer ids that name the property k1 or the escrow k3
EscrowTerms ==
  {[transactionId |-> "k2", buyerId |-> "b", price |-> 4, conditions |-> {"c1"}],
   [transactionId |-> "k2", buyerId |-> "b", price |-> 4, conditions |-> {}],
   [transactionId |-> "k2", buyerId |-> "a", price |-> 0, conditions |-> {"c1"}],
   [transactionId |-> "k1", buyerId |-> "b", price |-> 0, conditions |-> {"c1"}],
   [transactionId |-> "k3", buyerId |-> "b", price |-> 0, conditions |-> {"c1"}]}
Amounts == {-1, 3, 4}
\* a name every JavaScript object inherits from Object.prototype
InheritedIds == {"toString"}
\* c1 is declared by the escrows above, c2 by none
ConditionIds == {"c1", "c2"} \cup InheritedIds
Reasons == {"", "r"}
NoDetails == [f \in {} |-> 0]
DetailMaps == {[f \in {"area"} |-> 1]}

\* Math.abs(totalPaid - escrow.price) < 0.01, in units of 0.005
Tolerance == 2

NoConditions == [c \in {} |-> FALSE]

\* a key that getState finds empty
Blank ==
  [docType |-> "none", status |-> Undef, ownerId |-> Undef,
   details |-> NoDetails, history |-> <<>>,
   transactionId |-> Undef, propertyId |-> Undef, escrowId |-> Undef,
   sellerId |-> Undef, buyerId |-> Undef, price |-> 0,
   conditions |-> {}, conditions_met |-> NoConditions,
   payments |-> <<>>, documents |-> <<>>, verifications |-> <<>>,
   cancellationReason |-> Undef]

VARIABLES
  ledger,      \* the world state: key -> record
  registrant,  \* history variable: ownerId of the first RegisterProperty per key
  born,        \* history variable: length of the property's history when the
               \* transfer or escrow under a key was created
  steps,       \* number of steps taken since Init
  version,     \* key -> number of committed writes to it
  pending      \* slot -> the invocation simulated in it, not yet committed
vars == <<ledger, registrant, born, steps, version, pending>>

\* !bytes || bytes.length === 0
Exists(L, k) == k \in Keys /\ L[k].docType # "none"

Ok(L) == [err |-> "ok", st |-> L]
Throw(L, e) == [err |-> e, st |-> L]

\* reduce((sum, p) => sum + p.amount, 0)
RECURSIVE SumAmounts(_)
SumAmounts(ps) ==
  IF ps = <<>> THEN 0 ELSE ps[1].amount + SumAmounts(Tail(ps))

Abs(x) == IF x < 0 THEN 0 - x ELSE x

\* reason || 'No reason provided'
ReasonOrDefault(reason) == IF reason = "" THEN "No reason provided" ELSE reason

\* { ...property.details, ...updatedDetails }
MergeDetails(old, new) ==
  [f \in (DOMAIN old) \cup (DOMAIN new) |->
     IF f \in DOMAIN new THEN new[f] ELSE old[f]]

\* --------------------------------------------------------- PropertyContract
RegisterPropertyTx(L, propertyId, ownerId, details) ==
  Ok([L EXCEPT ![propertyId] =
        [Blank EXCEPT !.docType = "property", !.propertyId = propertyId,
                      !.ownerId = ownerId, !.details = details,
                      !.status = "active", !.history = <<>>]])

\* UpdateProperty replacing the details instead of merging into them
UpdatePropertyTxReplaces(L, propertyId, newDetails) ==
  IF ~Exists(L, propertyId) THEN Throw(L, "NotFound")
  ELSE Ok([L EXCEPT ![propertyId].details = newDetails])

UpdatePropertyTx(L, propertyId, newDetails) ==
  IF ~Exists(L, propertyId) THEN Throw(L, "NotFound")
  ELSE Ok([L EXCEPT ![propertyId].details =
                       MergeDetails(L[propertyId].details, newDetails)])

\* TransferProperty trusting the caller's currentOwnerId
TransferPropertyTxNoOwnerCheck(L, propertyId, currentOwnerId, newOwnerId) ==
  IF ~Exists(L, propertyId) THEN Throw(L, "NotFound")
  ELSE LET transaction ==
             [type |-> "transfer", transactionId |-> Undef, escrowId |-> Undef,
              fromOwnerId |-> currentOwnerId, toOwnerId |-> newOwnerId,
              price |-> 0]
       IN Ok([L EXCEPT ![propertyId].history = Append(@, transaction),
                       ![propertyId].ownerId = newOwnerId])

TransferPropertyTx(L, propertyId, currentOwnerId, newOwnerId) ==
  IF ~Exists(L, propertyId) THEN Throw(L, "NotFound")
  ELSE IF L[propertyId].ownerId # currentOwnerId
       THEN Throw(L, "OwnershipMismatch")
  ELSE LET transaction ==
             [type |-> "transfer", transactionId |-> Undef, escrowId |-> Undef,
              fromOwnerId |-> currentOwnerId, toOwnerId |-> newOwnerId,
              price |-> 0]
       IN Ok([L EXCEPT ![propertyId].history = Append(@, transaction),
                       ![propertyId].ownerId = newOwnerId])

\* ------------------------------------------------------ TransactionContract
CreateTransactionTx(L, transactionId, propertyId, sellerId, buyerId, price) ==
  IF ~Exists(L, propertyId) THEN Throw(L, "NotFound")
  ELSE IF L[propertyId].ownerId # sellerId THEN Throw(L, "OwnershipMismatch")
  ELSE Ok([L EXCEPT ![transactionId] =
        [Blank EXCEPT !.docType = "transaction",
                      !.transactionId = transactionId,
                      !.propertyId = propertyId, !.sellerId = sellerId,
                      !.buyerId = buyerId, !.price = price,
                      !.status = "pending"]])

CompleteTransactionTx(L, transactionId) ==
  IF ~Exists(L, transactionId) THEN Throw(L, "NotFound")
  ELSE LET transaction == L[transactionId] IN
  IF transaction.status # "pending" THEN Throw(L, "InvalidState")
  ELSE IF ~Exists(L, transaction.propertyId) THEN Throw(L, "NotFound")
  ELSE LET property == L[transaction.propertyId] IN
  IF property.ownerId # transaction.sellerId THEN Throw(L, "OwnershipMismatch")
  ELSE LET transferRecord ==
             [type |-> "transfer", transactionId |-> transaction.transactionId,
              escrowId |-> Undef, fromOwnerId |-> transaction.sellerId,
              toOwnerId |-> transaction.buyerId, price |-> transaction.price]
           property2 == [property EXCEPT !.history = Append(@, transferRecord),
                                         !.ownerId = transaction.buyerId]
           transaction2 == [transaction EXCEPT !.status = "completed"]
           L1 == [L EXCEPT ![transaction.propertyId] = property2]
       IN Ok([L1 EXCEPT ![transactionId] = transaction2])

\* CancelTransaction refusing only a completed record
CancelTransactionTxUnlessCompleted(L, transactionId, reason) ==
  IF ~Exists(L, transactionId) THEN Throw(L, "NotFound")
  ELSE IF L[transactionId].status = "completed" THEN Throw(L, "InvalidState")
  ELSE Ok([L EXCEPT ![transactionId].status = "cancelled",
                    ![transactionId].cancellationReason =
                        ReasonOrDefault(reason)])

CancelTransactionTx(L, transactionId, reason) ==
  IF ~Exists(L, transactionId) THEN Throw(L, "NotFound")
  ELSE IF L[transactionId].status # "pending" THEN Throw(L, "InvalidState")
  ELSE Ok([L EXCEPT ![transactionId].status = "cancelled",
                    ![transactionId].cancellationReason =
                        ReasonOrDefault(reason)])

\* ----------------------------------------------------------- EscrowContract
\* CreateEscrow without the comparison of the property's owner with the seller
CreateEscrowTxNoOwnerCheck(L, escrowId, transactionId, propertyId, sellerId, buyerId, price, conditions) ==
  IF ~Exists(L, transactionId) THEN Throw(L, "NotFound")
  ELSE IF ~Exists(L, propertyId) THEN Throw(L, "NotFound")
  ELSE Ok([L EXCEPT ![escrowId] =
        [Blank EXCEPT !.docType = "escrow", !.escrowId = escrowId,
                      !.transactionId = transactionId,
                      !.propertyId = propertyId, !.sellerId = sellerId,
                      !.buyerId = buyerId, !.price = price,
                      !.conditions = conditions, !.status = "created",
                      !.conditions_met = [c \in conditions |-> FALSE]]])

CreateEscrowTx(L, escrowId, transactionId, propertyId, sellerId, buyerId, price, conditions) ==
  IF ~Exists(L, transactionId) THEN Throw(L, "NotFound")
  ELSE IF ~Exists(L, propertyId) THEN Throw(L, "NotFound")
  ELSE IF L[propertyId].ownerId # sellerId THEN Throw(L, "OwnershipMismatch")
  ELSE Ok([L EXCEPT ![escrowId] =
        [Blank EXCEPT !.docType = "escrow", !.escrowId = escrowId,
                      !.transactionId = transactionId,
                      !.propertyId = propertyId, !.sellerId = sellerId,
                      !.buyerId = buyerId, !.price = price,
                      !.conditions = conditions, !.status = "created",
                      !.conditions_met = [c \in conditions |-> FALSE]]])

\* AddPayment re-evaluating readiness the way MarkConditionMet does
AddPaymentTxChecksReadiness(L, escrowId, amount) ==
  IF ~Exists(L, escrowId) THEN Throw(L, "NotFound")
  ELSE LET escrow == L[escrowId] IN
  IF escrow.status # "created" /\ escrow.status # "in_progress"
  THEN Throw(L, "InvalidState")
  ELSE LET payments == Append(escrow.payments, [amount |-> amount])
           totalPaid == SumAmounts(payments)
           allConditionsMet ==
             \A c \in DOMAIN escrow.conditions_met :
               escrow.conditions_met[c] = TRUE
           status == IF allConditionsMet /\ totalPaid = escrow.price
                     THEN "ready_for_completion"
                     ELSE IF escrow.status = "created" /\ totalPaid > 0
                     THEN "in_progress" ELSE escrow.status
       IN Ok([L EXCEPT ![escrowId].payments = payments,
                       ![escrowId].status = status])

AddPaymentTx(L, escrowId, amount) ==
  IF ~Exists(L, escrowId) THEN Throw(L, "NotFound")
  ELSE LET escrow == L[escrowId] IN
  IF escrow.status # "created" /\ escrow.status # "in_progress"
  THEN Throw(L, "InvalidState")
  ELSE LET payments == Append(escrow.payments, [amount |-> amount])
           totalPaid == SumAmounts(payments)
           status == IF escrow.status = "created" /\ totalPaid > 0
                     THEN "in_progress" ELSE escrow.status
       IN Ok([L EXCEPT ![escrowId].payments = payments,
                       ![escrowId].status = status])

\* AddDocument moving a created escrow to in_progress, as AddPayment does
AddDocumentTxStartsProgress(L, escrowId, documentId) ==
  IF ~Exists(L, escrowId) THEN Throw(L, "NotFound")
  ELSE LET escrow == L[escrowId] IN
  IF escrow.status # "created" /\ escrow.status # "in_progress"
  THEN Throw(L, "InvalidState")
  ELSE Ok([L EXCEPT ![escrowId].documents = Append(@, documentId),
                    ![escrowId].status = "in_progress"])

AddDocumentTx(L, escrowId, documentId) ==
  IF ~Exists(L, escrowId) THEN Throw(L, "NotFound")
  ELSE LET escrow == L[escrowId] IN
  IF escrow.status # "created" /\ escrow.status # "in_progress"
  THEN Throw(L, "InvalidState")
  ELSE Ok([L EXCEPT ![escrowId].documents = Append(@, documentId)])

\* conditionId in escrow.conditions_met: own keys and inherited names
HasCondition(conditions_met, conditionId) ==
  conditionId \in DOMAIN conditions_met \/ conditionId \in InheritedIds

\* Math.abs(totalPaid - escrow.price) < 0.01 on binary doubles: decided by
\* the decimal difference except when that difference is exactly 0.01.  For
\* the amounts of this model (payments of 0.015, 0.02 and -0.005 against a
\* price of 0 or 0.02) a shortfall of exactly 0.01 is never below 0.01
\* (0.02 - 0.01 = 0.01), and an excess of exactly 0.01 is below it or not as
\* the additions round (0.015 + 0.015 - 0.02 = 0.009999999999999998, while
\* 0.015 + 0.02 - 0.005 - 0.02 = 0.010000000000000002); roundsBelow is that
\* outcome.
FullyPaid(totalPaid, price, roundsBelow) ==
  \/ Abs(totalPaid - price) < Tolerance
  \/ totalPaid - price = Tolerance /\ roundsBelow

\* MarkConditionMet refusing a condition that is already met
MarkConditionMetTxOnce(L, escrowId, conditionId, roundsBelow) ==
  IF ~Exists(L, escrowId) THEN Throw(L, "NotFound")
  ELSE LET escrow == L[escrowId] IN
  IF escrow.status # "created" /\ escrow.status # "in_progress"
  THEN Throw(L, "InvalidState")
  ELSE IF ~HasCondition(escrow.conditions_met, conditionId)
  THEN Throw(L, "UnknownCondition")
  ELSE IF conditionId \in DOMAIN escrow.conditions_met
          /\ escrow.conditions_met[conditionId] = TRUE
  THEN Throw(L, "InvalidState")
  ELSE LET conditions_met ==
             [c \in (DOMAIN escrow.conditions_met) \cup {conditionId} |->
                IF c = conditionId THEN TRUE ELSE escrow.conditions_met[c]]
           allConditionsMet ==
             \A c \in DOMAIN conditions_met : conditions_met[c] = TRUE
           totalPaid == SumAmounts(escrow.payments)
           status == IF allConditionsMet
                        /\ FullyPaid(totalPaid, escrow.price, roundsBelow)
                     THEN "ready_for_completion" ELSE escrow.status
       IN Ok([L EXCEPT ![escrowId].conditions_met = conditions_met,
                       ![escrowId].verifications = Append(@, conditionId),
                       ![escrowId].status = status])

MarkConditionMetTx(L, escrowId, conditionId, roundsBelow) ==
  IF ~Exists(L, escrowId) THEN Throw(L, "NotFound")
  ELSE LET escrow == L[escrowId] IN
  IF escrow.status # "created" /\ escrow.status # "in_progress"
  THEN Throw(L, "InvalidState")
  ELSE IF ~HasCondition(escrow.conditions_met, conditionId)
  THEN Throw(L, "UnknownCondition")
  ELSE LET conditions_met ==
             [c \in (DOMAIN escrow.conditions_met) \cup {conditionId} |->
                IF c = conditionId THEN TRUE ELSE escrow.conditions_met[c]]
           allConditionsMet ==
             \A c \in DOMAIN conditions_met : conditions_met[c] = TRUE
           totalPaid == SumAmounts(escrow.payments)
           status == IF allConditionsMet
                        /\ FullyPaid(totalPaid, escrow.price, roundsBelow)
                     THEN "ready_for_completion" ELSE escrow.status
       IN Ok([L EXCEPT ![escrowId].conditions_met = conditions_met,
                       ![escrowId].verifications = Append(@, conditionId),
                       ![escrowId].status = status])

\* CompleteEscrow without the re-check of the current owner
CompleteEscrowTxNoOwnerCheck(L, escrowId) ==
  IF ~Exists(L, escrowId) THEN Throw(L, "NotFound")
  ELSE LET escrow == L[escrowId] IN
  IF escrow.status # "ready_for_completion" THEN Throw(L, "InvalidState")
  ELSE IF ~Exists(L, escrow.propertyId) THEN Throw(L, "NotFound")
  ELSE IF ~Exists(L, escrow.transactionId) THEN Throw(L, "NotFound")
  ELSE LET property == L[escrow.propertyId]
           transaction == L[escrow.transactionId]
           transferRecord ==
             [type |-> "transfer", transactionId |-> escrow.transactionId,
              escrowId |-> escrow.escrowId, fromOwnerId |-> escrow.sellerId,
              toOwnerId |-> escrow.buyerId, price |-> escrow.price]
           property2 == [property EXCEPT !.history = Append(@, transferRecord),
                                         !.ownerId = escrow.buyerId]
           L1 == [L EXCEPT ![escrow.propertyId] = property2]
           L2 == [L1 EXCEPT ![escrow.transactionId] =
                              [transaction EXCEPT !.status = "completed"]]
       IN Ok([L2 EXCEPT ![escrowId] = [escrow EXCEPT !.status = "completed"]])

CompleteEscrowTx(L, escrowId) ==
  IF ~Exists(L, escrowId) THEN Throw(L, "NotFound")
  ELSE LET escrow == L[escrowId] IN
  IF escrow.status # "ready_for_completion" THEN Throw(L, "InvalidState")
  ELSE IF ~Exists(L, escrow.propertyId) THEN Throw(L, "NotFound")
  ELSE LET property == L[escrow.propertyId] IN
  IF property.ownerId # escrow.sellerId THEN Throw(L, "OwnershipMismatch")
  ELSE IF ~Exists(L, escrow.transactionId) THEN Throw(L, "NotFound")
  ELSE LET transaction == L[escrow.transactionId]
           transferRecord ==
             [type |-> "transfer", transactionId |-> escrow.transactionId,
              escrowId |-> escrow.escrowId, fromOwnerId |-> escrow.sellerId,
              toOwnerId |-> escrow.buyerId, price |-> escrow.price]
           property2 == [property EXCEPT !.history = Append(@, transferRecord),
                                         !.ownerId = escrow.buyerId]
           transaction2 == [transaction EXCEPT !.status = "completed"]
           escrow2 == [escrow EXCEPT !.status = "completed"]
           \* three putState calls in this order; the last write to a key wins
           L1 == [L EXCEPT ![escrow.propertyId] = property2]
           L2 == [L1 EXCEPT ![escrow.transactionId] = transaction2]
       IN Ok([L2 EXCEPT ![escrowId] = escrow2])

\* CancelEscrow cancelling the linked record whatever its status
CancelEscrowTxCancelsCompleted(L, escrowId, reason, undefinedKeyFails) ==
  IF ~Exists(L, escrowId) THEN Throw(L, "NotFound")
  ELSE LET escrow == L[escrowId] IN
  IF escrow.status = "completed" \/ escrow.status = "cancelled"
  THEN Throw(L, "InvalidState")
  ELSE IF escrow.transactionId = Undef /\ undefinedKeyFails
  THEN Throw(L, "ShimError")
  ELSE LET escrow2 == [escrow EXCEPT !.status = "cancelled",
                          !.cancellationReason = ReasonOrDefault(reason)]
           L1 == IF Exists(L, escrow.transactionId)
                 THEN [L EXCEPT ![escrow.transactionId].status = "cancelled"]
                 ELSE L
       IN Ok([L1 EXCEPT ![escrowId] = escrow2])

\* undefinedKeyFails: what getState does when escrow.transactionId is
\* undefined (the record under escrowId is a property); the shim either
\* rejects the key or reports it empty.
CancelEscrowTx(L, escrowId, reason, undefinedKeyFails) ==
  IF ~Exists(L, escrowId) THEN Throw(L, "NotFound")
  ELSE LET escrow == L[escrowId] IN
  IF escrow.status = "completed" \/ escrow.status = "cancelled"
  THEN Throw(L, "InvalidState")
  ELSE IF escrow.transactionId = Undef /\ undefinedKeyFails
  THEN Throw(L, "ShimError")
  ELSE LET escrow2 == [escrow EXCEPT !.status = "cancelled",
                          !.cancellationReason = ReasonOrDefault(reason)]
           L1 == IF Exists(L, escrow.transactionId)
                    /\ L[escrow.transactionId].status # "completed"
                 THEN [L EXCEPT ![escrow.transactionId].status = "cancelled"]
                 ELSE L
       IN Ok([L1 EXCEPT ![escrowId] = escrow2])

\* ------------------------------------------------------------ state machine
\* invocations that may be simulated but not yet committed at one time
Slots == {"t1", "t2"}

\* a slot that holds no simulated invocation
Idle ==
  [live |-> FALSE, rset |-> {}, rver |-> [k \in Keys |-> 0],
   writes |-> [k \in {} |-> Blank]]

\* the model follows a record only up to these sizes
WithinBounds(L) ==
  \A k \in Keys : /\ Len(L[k].history) <= MaxHistory
                  /\ Len(L[k].payments) <= MaxPayments
                  /\ Len(L[k].documents) <= MaxDocuments
                  /\ Len(L[k].verifications) <= MaxVerifications

EmptyLedger == [k \in Keys |-> Blank]

\* the ledger after a sale was opened on an empty ledger: property k1 of
\* owner a, transfer k2 and escrow k3 selling it to b for 4
SaleLedger ==
  LET L1 == RegisterPropertyTx(EmptyLedger, "k1", "a", NoDetails).st
      L2 == CreateTransactionTx(L1, "k2", "k1", "a", "b", 4).st
  IN CreateEscrowTx(L2, "k3", "k2", "k1", "a", "b", 4, {"c1"}).st

\* the same sale paid in full, with condition c1 verified
ReadyLedger ==
  LET L1 == AddPaymentTx(SaleLedger, "k3", 4).st
  IN MarkConditionMetTx(L1, "k3", "c1", FALSE).st

\* the same, with a competing escrow k4 on the same property and transfer
\* prepared before either escrow completes
RaceLedger ==
  LET L1 == CreateEscrowTx(ReadyLedger, "k4", "k2", "k1", "a", "b", 4, {"c1"}).st
      L2 == AddPaymentTx(L1, "k4", 4).st
  IN MarkConditionMetTx(L2, "k4", "c1", FALSE).st

\* the sale of ReadyLedger completed: k1 now belongs to b
CompletedLedger == CompleteEscrowTx(ReadyLedger, "k3").st

\* the sale of SaleLedger still open, but k1 handed over to b outside it
HandedOverLedger == TransferPropertyTx(SaleLedger, "k1", "a", "b").st

Init ==
  /\ \/ /\ ledger = EmptyLedger
        /\ registrant = [k \in Keys |-> Undef]
     \/ /\ ledger = SaleLedger
        /\ registrant = [k \in Keys |-> IF k = "k1" THEN "a" ELSE Undef]
     \/ /\ ledger = ReadyLedger
        /\ registrant = [k \in Keys |-> IF k = "k1" THEN "a" ELSE Undef]
     \/ /\ ledger = CompletedLedger
        /\ registrant = [k \in Keys |-> IF k = "k1" THEN "a" ELSE Undef]
     \/ /\ ledger = HandedOverLedger
        /\ registrant = [k \in Keys |-> IF k = "k1" THEN "a" ELSE Undef]
     \/ /\ ledger = RaceLedger
        /\ registrant = [k \in Keys |-> IF k = "k1" THEN "a" ELSE Undef]
  /\ born = [k \in Keys |-> 0]
  /\ steps = 0
  /\ version = [k \in Keys |-> 0]
  /\ pending = [s \in Slots |-> Idle]

\* one invocation that commits: its writes reach the world state.  An
\* invocation that throws writes nothing, so it is no step of the ledger;
\* what it would return is the err field of the ...Tx operator.
Invoke(r) ==
  /\ steps < MaxSteps
  /\ r.err = "ok"
  /\ WithinBounds(r.st)
  /\ ledger' = r.st
  /\ steps' = steps + 1
  /\ UNCHANGED <<version, pending>>

RegisterProperty ==
  \E propertyId \in PropertyIds, ownerId \in Owners, details \in {NoDetails} :
    /\ Invoke(RegisterPropertyTx(ledger, propertyId, ownerId, details))
    /\ registrant' = [registrant EXCEPT ![propertyId] =
                        IF @ = Undef THEN ownerId ELSE @]
    /\ UNCHANGED born

UpdateProperty ==
  \E propertyId \in UpdateIds, newDetails \in DetailMaps :
    /\ Invoke(UpdatePropertyTx(ledger, propertyId, newDetails))
    /\ UNCHANGED <<registrant, born>>

TransferProperty ==
  \E propertyId \in Keys, currentOwnerId \in Owners, newOwnerId \in Owners :
    /\ Invoke(TransferPropertyTx(ledger, propertyId, currentOwnerId, newOwnerId))
    /\ UNCHANGED <<registrant, born>>

CreateTransaction ==
  \E transactionId \in TransactionIds, propertyId \in Keys, sellerId \in Owners,
     t \in TransferTerms :
    /\ Invoke(CreateTransactionTx(ledger, transactionId, propertyId, sellerId,
                                  t.buyerId, t.price))
    /\ born' = [born EXCEPT ![transactionId] = Len(ledger[propertyId].history)]
    /\ UNCHANGED registrant

CompleteTransaction ==
  \E transactionId \in Keys :
    /\ Invoke(CompleteTransactionTx(ledger, transactionId))
    /\ UNCHANGED <<registrant, born>>

CancelTransaction ==
  \E transactionId \in Keys, reason \in Reasons :
    /\ Invoke(CancelTransactionTx(ledger, transactionId, reason))
    /\ UNCHANGED <<registrant, born>>

CreateEscrow ==
  \E escrowId \in EscrowIds, propertyId \in Keys, sellerId \in Owners,
     t \in EscrowTerms :
    /\ Invoke(CreateEscrowTx(ledger, escrowId, t.transactionId, propertyId,
                             sellerId, t.buyerId, t.price, t.conditions))
    /\ born' = [born EXCEPT ![escrowId] = Len(ledger[propertyId].history)]
    /\ UNCHANGED registrant

AddPayment ==
  \E escrowId \in Keys, amount \in Amounts :
    /\ Invoke(AddPaymentTx(ledger, escrowId, amount))
    /\ UNCHANGED <<registrant, born>>

AddDocument ==
  \E escrowId \in Keys :
    /\ Invoke(AddDocumentTx(ledger, escrowId, "doc"))
    /\ UNCHANGED <<registrant, born>>

MarkConditionMet ==
  \E escrowId \in Keys, conditionId \in ConditionIds, roundsBelow \in BOOLEAN :
    /\ Invoke(MarkConditionMetTx(ledger, escrowId, conditionId, roundsBelow))
    /\ UNCHANGED <<registrant, born>>

CompleteEscrow ==
  \E escrowId \in Keys :
    /\ Invoke(CompleteEscrowTx(ledger, escrowId))
    /\ UNCHANGED <<registrant, born>>

CancelEscrow ==
  \E escrowId \in Keys, reason \in Reasons, undefinedKeyFails \in BOOLEAN :
    /\ Invoke(CancelEscrowTx(ledger, escrowId, reason, undefinedKeyFails))
    /\ UNCHANGED <<registrant, born>>

Next ==
  \/ RegisterProperty
  \/ UpdateProperty
  \/ TransferProperty
  \/ CreateTransaction
  \/ CompleteTransaction
  \/ CancelTransaction
  \/ CreateEscrow
  \/ AddPayment
  \/ AddDocument
  \/ MarkConditionMet
  \/ CompleteEscrow
  \/ CancelEscrow

Spec == Init /\ [][Next]_vars

\* ------------------------------------------- simulate, then commit (MVCC)
\* an invocation is first simulated against the current world state, which
\* records the version of every key it reads with getState and the value of
\* every key it writes with putState; at commit the store compares the
\* recorded versions with the current ones and applies the writes only when
\* none has moved
Simulate(s, r, rset, wset) ==
  /\ steps < MaxSteps
  /\ ~pending[s].live
  /\ r.err = "ok"
  /\ WithinBounds(r.st)
  /\ pending' = [pending EXCEPT ![s] =
                   [live |-> TRUE, rset |-> rset, rver |-> version,
                    writes |-> [k \in wset |-> r.st[k]]]]
  /\ steps' = steps + 1
  /\ UNCHANGED <<ledger, registrant, born, version>>

\* getState(transactionId), getState(propertyId); putState(escrowId)
SimulateCreateEscrow(s) ==
  \E escrowId \in EscrowIds, propertyId \in PropertyIds, sellerId \in Owners,
     t \in EscrowTerms :
    Simulate(s, CreateEscrowTx(ledger, escrowId, t.transactionId, propertyId,
                               sellerId, t.buyerId, t.price, t.conditions),
             {t.transactionId, propertyId}, {escrowId})

\* getState(escrowId); putState(escrowId)
SimulateAddPayment(s) ==
  \E escrowId \in EscrowIds, amount \in Amounts :
    Simulate(s, AddPaymentTx(ledger, escrowId, amount), {escrowId}, {escrowId})

\* getState(escrowId); putState(escrowId)
SimulateMarkConditionMet(s) ==
  \E escrowId \in EscrowIds, conditionId \in ConditionIds,
     roundsBelow \in BOOLEAN :
    Simulate(s, MarkConditionMetTx(ledger, escrowId, conditionId, roundsBelow),
             {escrowId}, {escrowId})

\* getState of the escrow, its property and its transaction; putState of
\* the same three keys
SimulateCompleteEscrow(s) ==
  \E escrowId \in EscrowIds :
    LET touched == {escrowId, ledger[escrowId].propertyId,
                    ledger[escrowId].transactionId}
    IN Simulate(s, CompleteEscrowTx(ledger, escrowId), touched, touched)

\* no key the invocation read has been written since it was simulated
Valid(s) == \A k \in pending[s].rset : version[k] = pending[s].rver[k]

Commit(s) ==
  /\ pending[s].live
  /\ Valid(s)
  /\ ledger' = [k \in Keys |->
                  IF k \in DOMAIN pending[s].writes THEN pending[s].writes[k]
                  ELSE ledger[k]]
  /\ version' = [k \in Keys |->
                   IF k \in DOMAIN pending[s].writes THEN version[k] + 1
                   ELSE version[k]]
  /\ pending' = [pending EXCEPT ![s] = Idle]
  /\ steps' = steps + 1
  /\ UNCHANGED <<registrant, born>>

Reject(s) ==
  /\ pending[s].live
  /\ ~Valid(s)
  /\ pending' = [pending EXCEPT ![s] = Idle]
  /\ steps' = steps + 1
  /\ UNCHANGED <<ledger, registrant, born, version>>

NextMVCC ==
  \E s \in Slots :
    \/ SimulateCreateEscrow(s)
    \/ SimulateAddPayment(s)
    \/ SimulateMarkConditionMet(s)
    \/ SimulateCompleteEscrow(s)
    \/ Commit(s)
    \/ Reject(s)

SpecMVCC == Init /\ [][NextMVCC]_vars

\* ------------------------------------------------------ wall-clock time
\* new Date().toISOString() on the peer that executes an invocation
Clock == {"10:00:00.000Z", "10:00:00.001Z"}

\* what one execution of an invocation hands to the store and returns: the
\* records of its putState calls, each carrying updatedAt (and, when new,
\* createdAt) read from the clock of the executing peer; an execution that
\* throws writes nothing
Execution(r, wset, now) ==
  [err |-> r.err,
   writes |-> [k \in (IF r.err = "ok" THEN wset ELSE {}) |->
                 [record |-> r.st[k], updatedAt |-> now]]]

ExecuteCreateTransaction(L, transactionId, propertyId, sellerId, buyerId, price, now) ==
  Execution(CreateTransactionTx(L, transactionId, propertyId, sellerId,
                                buyerId, price),
            {transactionId}, now)

ExecuteCreateEscrow(L, escrowId, transactionId, propertyId, sellerId, buyerId, price, conditions, now) ==
  Execution(CreateEscrowTx(L, escrowId, transactionId, propertyId, sellerId,
                           buyerId, price, conditions),
            {escrowId}, now)

ExecuteCompleteEscrow(L, escrowId, now) ==
  Execution(CompleteEscrowTx(L, escrowId),
            {escrowId, L[escrowId].propertyId, L[escrowId].transactionId}, now)

\* ------------------------------------------------------------------ claims
IsProperty(r) == r.docType = "property"
IsTransfer(r) == r.docType = "transaction"
IsEscrow(r) == r.docType = "escrow"
Terminal(r) == r.status = "completed" \/ r.status = "cancelled"

\* this step is the committed invocation whose result is r
Commits(r) == r.err = "ok" /\ ledger' = r.st

\* the history entry h records the completion of escrow E
RecordsEscrow(h, E) ==
  /\ h.escrowId = E.escrowId
  /\ h.transactionId = E.transactionId
  /\ h.fromOwnerId = E.sellerId
  /\ h.toOwnerId = E.buyerId

\* the sequence new is old with exactly one entry appended
OneAppended(old, new) ==
  Len(new) = Len(old) + 1 /\ SubSeq(new, 1, Len(old)) = old

\* what a successful CompleteEscrow of the escrow under e must leave behind
CompletedAll(L, L2, e) ==
  LET E == L[e] IN
  /\ L2[E.propertyId].ownerId = E.buyerId
  /\ OneAppended(L[E.propertyId].history, L2[E.propertyId].history)
  /\ RecordsEscrow(L2[E.propertyId].history[Len(L2[E.propertyId].history)], E)
  /\ L2[E.transactionId].status = "completed"
  /\ L2[e].status = "completed"

\* C1: whenever CompleteEscrow succeeds on an escrow E, the resulting state
\* has the property owned by E.buyerId, exactly one history entry appended
\* (from seller to buyer, naming E and its transfer), the record under
\* E.transactionId completed and E completed.
C1_CompleteEscrowUpdatesAllThree ==
  [][\A e \in Keys :
       Commits(CompleteEscrowTx(ledger, e)) => CompletedAll(ledger, ledger', e)]_vars

\* the history of property p holds an entry of transfer t
HistoryHasTransfer(L, p, t) ==
  Exists(L, p) /\ \E i \in 1..Len(L[p].history) : L[p].history[i].transactionId = t

\* C2: in every reachable state, for every Escrow E whose transactionId names
\* a Transfer T: E is completed iff T is completed, and if either is
\* completed the property's history holds an entry of that transfer.
C2_StatusesAgree ==
  \A e \in Keys :
    IsEscrow(ledger[e]) /\ Exists(ledger, ledger[e].transactionId)
    /\ IsTransfer(ledger[ledger[e].transactionId])
    => LET E == ledger[e]
           T == ledger[E.transactionId]
       IN /\ (E.status = "completed") <=> (T.status = "completed")
          /\ (E.status = "completed" \/ T.status = "completed")
               => HistoryHasTransfer(ledger, E.propertyId, E.transactionId)

\* the escrow under e is ready and linked to a Transfer record
ReadySale(L, e) ==
  /\ IsEscrow(L[e]) /\ L[e].status = "ready_for_completion"
  /\ IsTransfer(L[L[e].transactionId])

\* C3: of two ready escrows e1, e2 on the same property, each linked to a
\* Transfer, once CompleteEscrow(e1) commits, CompleteEscrow(e2) fails with
\* the ownership mismatch and writes nothing.
C3_SecondCompletionFails ==
  [][\A e1, e2 \in Keys :
       /\ e1 # e2
       /\ ReadySale(ledger, e1) /\ ReadySale(ledger, e2)
       /\ ledger[e1].propertyId = ledger[e2].propertyId
       /\ Commits(CompleteEscrowTx(ledger, e1))
       => /\ CompleteEscrowTx(ledger', e2).err = "OwnershipMismatch"
          /\ CompleteEscrowTx(ledger', e2).st = ledger']_vars

\* every mutating operation of EscrowContract fails with the invalid-state
\* error on the record under e
AllRefused(L, e) ==
  /\ \A amount \in Amounts : AddPaymentTx(L, e, amount).err = "InvalidState"
  /\ AddDocumentTx(L, e, "doc").err = "InvalidState"
  /\ \A c \in ConditionIds, b \in BOOLEAN :
       MarkConditionMetTx(L, e, c, b).err = "InvalidState"
  /\ CompleteEscrowTx(L, e).err = "InvalidState"
  /\ \A reason \in Reasons, b \in BOOLEAN :
       CancelEscrowTx(L, e, reason, b).err = "InvalidState"

\* C4: for every Escrow that is completed or cancelled, AddPayment,
\* AddDocument, MarkConditionMet, CompleteEscrow and CancelEscrow fail with
\* the invalid-state error and no later step changes the stored record.
C4_TerminalEscrowFrozen ==
  [][\A e \in Keys :
       IsEscrow(ledger[e]) /\ Terminal(ledger[e])
       => AllRefused(ledger, e) /\ ledger'[e] = ledger[e]]_vars

\* the history entries of property p that name escrow e
EntriesOfEscrow(L, p, e) ==
  {i \in 1..Len(L[p].history) : L[p].history[i].escrowId = e}

\* C5: after a successful CompleteEscrow(e) a second call fails with the
\* invalid-state error and writes nothing, and in every state the history of
\* a property holds at most one entry naming a given escrow.
C5_CompleteEscrowOnce ==
  [][/\ \A e \in Keys :
          Commits(CompleteEscrowTx(ledger, e))
          => /\ CompleteEscrowTx(ledger', e).err = "InvalidState"
             /\ CompleteEscrowTx(ledger', e).st = ledger'
     /\ \A p, e \in Keys : Cardinality(EntriesOfEscrow(ledger', p, e)) <= 1]_vars

\* C6: every Escrow that is ready_for_completion or completed has payments
\* within 0.01 of its price and every declared condition met.
C6_ReadyMeansPaid ==
  \A e \in Keys :
    IsEscrow(ledger[e])
    /\ ledger[e].status \in {"ready_for_completion", "completed"}
    => /\ Abs(SumAmounts(ledger[e].payments) - ledger[e].price) <= Tolerance
       /\ \A c \in ledger[e].conditions : ledger[e].conditions_met[c]

\* this step stores a newly created record under key k
Recreates(k) ==
  \/ \E o \in Owners : Commits(RegisterPropertyTx(ledger, k, o, NoDetails))
  \/ \E p \in Keys, s \in Owners, terms \in TransferTerms :
       Commits(CreateTransactionTx(ledger, k, p, s, terms.buyerId, terms.price))
  \/ \E p \in Keys, s \in Owners, terms \in EscrowTerms :
       Commits(CreateEscrowTx(ledger, k, terms.transactionId, p, s,
                              terms.buyerId, terms.price, terms.conditions))

\* C7: once a Transfer is cancelled or completed, no later operation on the
\* existing record changes its status or any other field; in particular
\* CompleteEscrow of a linked escrow never turns a cancelled Transfer
\* completed.  (A creation that reuses the id replaces the record and is
\* left aside here.)
C7_TerminalTransferFrozen ==
  [][\A t \in Keys :
       IsTransfer(ledger[t]) /\ Terminal(ledger[t]) /\ ~Recreates(t)
       => ledger'[t] = ledger[t]]_vars

\* the record under t is a Transfer that this step turns completed
BecomesCompleted(t) ==
  /\ IsTransfer(ledger[t]) /\ ledger[t].status # "completed"
  /\ IsTransfer(ledger'[t]) /\ ledger'[t].status = "completed"

\* this step is a successful CompleteEscrow of an escrow linked to t
ByCompleteEscrow(t) ==
  \E e \in Keys :
    ledger[e].transactionId = t /\ Commits(CompleteEscrowTx(ledger, e))

\* C8: every step in which a Transfer's status changes to completed is a
\* successful CompleteEscrow of an escrow linked to that Transfer.
C8_OnlyEscrowCompletes ==
  [][\A t \in Keys : BecomesCompleted(t) => ByCompleteEscrow(t)]_vars

\* this step stores a new Transfer under t
CreatesTransfer(t) ==
  \E p \in Keys, s \in Owners, terms \in TransferTerms :
    Commits(CreateTransactionTx(ledger, t, p, s, terms.buyerId, terms.price))

\* the seller of Transfer T owns T's property in ledger L
SellerOwns(L, T) ==
  Exists(L, T.propertyId) /\ L[T.propertyId].ownerId = T.sellerId

\* C9: the seller of a Transfer owns the property when the Transfer is
\* created and again in the state before any step that turns it completed.
C9_SellerOwnsAtCompletion ==
  [][\A t \in Keys :
       /\ CreatesTransfer(t) => SellerOwns(ledger, ledger'[t])
       /\ BecomesCompleted(t) => SellerOwns(ledger, ledger[t])]_vars

\* C10: for every Property, ownerId is the toOwnerId of the most recent
\* history entry, or the owner of the original registration if the history
\* is empty.
C10_OwnerMatchesHistory ==
  \A p \in Keys :
    IsProperty(ledger[p])
    => ledger[p].ownerId =
         IF ledger[p].history # <<>>
         THEN ledger[p].history[Len(ledger[p].history)].toOwnerId
         ELSE registrant[p]

\* the record under p is a Property before and after this step
StaysProperty(p) == IsProperty(ledger[p]) /\ IsProperty(ledger'[p])

\* C11: in every step where an existing Property's ownerId changes, exactly
\* one history entry is appended, leading from the previous owner to the new
\* one; every other step leaves the ownerId unchanged.
C11_OnlyTransfersChangeOwner ==
  [][\A p \in Keys :
       StaysProperty(p) /\ ledger'[p].ownerId # ledger[p].ownerId
       => /\ OneAppended(ledger[p].history, ledger'[p].history)
          /\ ledger'[p].history[Len(ledger'[p].history)].fromOwnerId
               = ledger[p].ownerId
          /\ ledger'[p].history[Len(ledger'[p].history)].toOwnerId
               = ledger'[p].ownerId]_vars

\* the sequence old is a prefix of new
IsPrefix(old, new) ==
  Len(old) <= Len(new) /\ SubSeq(new, 1, Len(old)) = old

\* C12: in every step the history of each existing Property before the step
\* is a prefix of its history after the step.
C12_HistoryAppendOnly ==
  [][\A p \in Keys :
       StaysProperty(p) => IsPrefix(ledger[p].history, ledger'[p].history)]_vars

\* the place of a status in created, in_progress, ready_for_completion,
\* completed
StatusRank(status) ==
  CASE status = "created" -> 1
    [] status = "in_progress" -> 2
    [] status = "ready_for_completion" -> 3
    [] status = "completed" -> 4
    [] OTHER -> 0

\* C13: no step moves the status of an Escrow backward in the order created,
\* in_progress, ready_for_completion, completed; the move to cancelled is
\* taken only from a non-terminal status; no step leaves completed or
\* cancelled.
C13_EscrowStatusForward ==
  [][\A e \in Keys :
       IsEscrow(ledger[e]) /\ IsEscrow(ledger'[e])
       => /\ Terminal(ledger[e]) => ledger'[e].status = ledger[e].status
          /\ \/ ledger'[e].status = "cancelled"
             \/ StatusRank(ledger'[e].status) >= StatusRank(ledger[e].status)]_vars

\* C14: every Escrow that is created, in_progress or ready_for_completion
\* has payments that do not exceed its price by more than the tolerance
\* (stated for the escrows with a positive price).
C14_NoOverpayment ==
  \A e \in Keys :
    IsEscrow(ledger[e]) /\ ledger[e].price > 0
    /\ ledger[e].status \in {"created", "in_progress", "ready_for_completion"}
    => SumAmounts(ledger[e].payments) - ledger[e].price <= Tolerance

\* C15: a RegisterProperty that commits was given an id that held no record,
\* and leaves a Property with the given owner, empty history and status
\* active; on an occupied id it fails and writes nothing.
C15_RegisterOnlyOnce ==
  [][\A k \in Keys, o \in Owners :
       Commits(RegisterPropertyTx(ledger, k, o, NoDetails))
       /\ ledger'[k] # ledger[k]
       => /\ ~Exists(ledger, k)
          /\ IsProperty(ledger'[k]) /\ ledger'[k].ownerId = o
          /\ ledger'[k].history = <<>> /\ ledger'[k].status = "active"]_vars

\* this step stores a new Escrow under e
CreatesEscrow(e) ==
  \E p \in Keys, s \in Owners, terms \in EscrowTerms :
    Commits(CreateEscrowTx(ledger, e, terms.transactionId, p, s,
                           terms.buyerId, terms.price, terms.conditions))

\* C16: no CreateTransaction or CreateEscrow commits on an id that holds a
\* Transfer or an Escrow: it fails and leaves that record as it was, so no
\* existing Transfer or Escrow is reset to pending or created.
C16_CreateNeverReuses ==
  [][\A k \in Keys :
       (CreatesTransfer(k) \/ CreatesEscrow(k)) /\ ledger'[k] # ledger[k]
       => ~(IsTransfer(ledger[k]) \/ IsEscrow(ledger[k]))]_vars

\* C17: CompleteEscrow fails with the invalid-state error exactly when the
\* status of the record is not ready_for_completion, fails with the
\* ownership-mismatch error when the status is ready_for_completion and the
\* property's ownerId differs from the escrow's sellerId, and a failing
\* CompleteEscrow leaves every record as it was.
C17_CompleteEscrowErrors ==
  \A e \in Keys :
    Exists(ledger, e)
    => LET E == ledger[e]
           r == CompleteEscrowTx(ledger, e)
       IN /\ (r.err = "InvalidState") <=> (E.status # "ready_for_completion")
          /\ E.status = "ready_for_completion" /\ Exists(ledger, E.propertyId)
             /\ ledger[E.propertyId].ownerId # E.sellerId
             => r.err = "OwnershipMismatch"
          /\ r.err # "ok" => r.st = ledger

\* an escrow is ready_for_completion while its seller no longer owns the
\* property, and CompleteEscrow refuses it
C17_Witness ==
  \E e \in Keys :
    /\ IsEscrow(ledger[e]) /\ ledger[e].status = "ready_for_completion"
    /\ IsProperty(ledger[ledger[e].propertyId])
    /\ ledger[ledger[e].propertyId].ownerId # ledger[e].sellerId
    /\ CompleteEscrowTx(ledger, e).err = "OwnershipMismatch"
    /\ \E f \in Keys : IsEscrow(ledger[f]) /\ ledger[f].status = "in_progress"
                       /\ CompleteEscrowTx(ledger, f).err = "InvalidState"

\* C18: after every MarkConditionMet(e, c) that commits, conditions_met[c] is
\* true, one verification is appended, and the status is
\* ready_for_completion exactly when every declared condition is true and
\* the payments differ from the price by less than 0.01 (in exact decimal
\* arithmetic); otherwise the status is left as it was.
C18_MarkConditionMetEffect ==
  [][\A e \in Keys, c \in ConditionIds, roundsBelow \in BOOLEAN :
       Commits(MarkConditionMetTx(ledger, e, c, roundsBelow))
       => LET E == ledger[e]
              E2 == ledger'[e]
          IN /\ c \in DOMAIN E2.conditions_met /\ E2.conditions_met[c] = TRUE
             /\ OneAppended(E.verifications, E2.verifications)
             /\ E2.status =
                  IF /\ \A d \in E2.conditions : E2.conditions_met[d] = TRUE
                     /\ Abs(SumAmounts(E2.payments) - E2.price) < Tolerance
                  THEN "ready_for_completion" ELSE E.status]_vars

\* the status of record r lets AddPayment, AddDocument and MarkConditionMet in
Open(r) == r.status = "created" \/ r.status = "in_progress"

\* C19: MarkConditionMet fails with the invalid-state error, writing nothing,
\* unless the status is created or in_progress, and no MarkConditionMet
\* commits for a conditionId that was not declared at the escrow's creation.
C19_MarkConditionMetErrors ==
  [][\A e \in Keys, c \in ConditionIds, roundsBelow \in BOOLEAN :
       Exists(ledger, e)
       => LET r == MarkConditionMetTx(ledger, e, c, roundsBelow)
          IN /\ ~Open(ledger[e]) => r.err = "InvalidState" /\ r.st = ledger
             /\ Commits(r) => c \in ledger[e].conditions]_vars

\* C20: AddPayment fails with the invalid-state error, writing nothing,
\* unless the status is created or in_progress; an AddPayment that commits
\* appends exactly one payment, moves created to in_progress when the total
\* is then greater than 0, leaves the status alone otherwise, and never sets
\* ready_for_completion.
C20_AddPaymentEffect ==
  [][\A e \in Keys, amount \in Amounts :
       Exists(ledger, e)
       => LET r == AddPaymentTx(ledger, e, amount)
              E == ledger[e]
              E2 == ledger'[e]
          IN /\ ~Open(E) => r.err = "InvalidState" /\ r.st = ledger
             /\ Commits(r)
                => /\ Open(E)
                   /\ OneAppended(E.payments, E2.payments)
                   /\ E2.payments[Len(E2.payments)].amount = amount
                   /\ E2.status =
                        IF E.status = "created" /\ SumAmounts(E2.payments) > 0
                        THEN "in_progress" ELSE E.status
                   /\ E2.status # "ready_for_completion"]_vars

\* an escrow whose conditions were all met before a payment brought the
\* total to the price: it is in_progress, not ready_for_completion
C20_Witness ==
  \E e \in Keys :
    /\ IsEscrow(ledger[e]) /\ ledger[e].status = "in_progress"
    /\ ledger[e].conditions # {}
    /\ \A c \in ledger[e].conditions : ledger[e].conditions_met[c] = TRUE
    /\ ledger[e].payments # <<>>
    /\ SumAmounts(ledger[e].payments) = ledger[e].price

\* every declared condition of escrow record E is met
AllDeclaredMet(E) ==
  E.conditions # {} /\ \A c \in E.conditions : E.conditions_met[c] = TRUE

\* C21: an escrow whose declared conditions were all met before the price was
\* paid is not made ready_for_completion by AddPayment or AddDocument, also
\* when the payment completes the price; once the payments total the price,
\* MarkConditionMet on a declared, already met condition is accepted and
\* makes it ready_for_completion.
C21_PaymentAfterConditions ==
  \A e \in Keys :
    IsEscrow(ledger[e]) /\ Open(ledger[e]) /\ AllDeclaredMet(ledger[e])
    => LET E == ledger[e] IN
       /\ \A amount \in Amounts :
            LET r == AddPaymentTx(ledger, e, amount)
            IN /\ r.err = "ok" /\ Open(r.st[e]) /\ AllDeclaredMet(r.st[e])
               /\ SumAmounts(r.st[e].payments) > 0
                    => r.st[e].status = "in_progress"
       /\ LET r == AddDocumentTx(ledger, e, "doc")
          IN r.err = "ok" /\ r.st[e].status = E.status
       /\ SumAmounts(E.payments) = E.price
          => \A c \in E.conditions, roundsBelow \in BOOLEAN :
               LET r == MarkConditionMetTx(ledger, e, c, roundsBelow)
               IN r.err = "ok" /\ r.st[e].status = "ready_for_completion"

\* an escrow became ready_for_completion by marking its condition a second
\* time after the payment arrived
C21_Witness ==
  \E e \in Keys :
    /\ IsEscrow(ledger[e]) /\ ledger[e].status = "ready_for_completion"
    /\ ledger[e].payments # <<>>
    /\ Len(ledger[e].verifications) = 2
    /\ ledger[e].verifications[1] = ledger[e].verifications[2]
    /\ ledger[e].verifications[1] \in ledger[e].conditions

\* C22: CancelEscrow on an escrow that is neither completed nor cancelled
\* succeeds: the escrow becomes cancelled and carries the given reason (the
\* default text when the reason is empty), the linked record becomes
\* cancelled unless it is completed, nothing else changes, and no record's
\* ownerId or history changes; on a completed or cancelled escrow it throws
\* the invalid-state error and writes nothing.
C22_CancelEscrowEffect ==
  \A e \in Keys :
    IsEscrow(ledger[e])
    => \A reason \in Reasons, undefinedKeyFails \in BOOLEAN :
         LET r == CancelEscrowTx(ledger, e, reason, undefinedKeyFails)
             E == ledger[e]
             t == E.transactionId
         IN /\ Terminal(E) => r.err = "InvalidState" /\ r.st = ledger
            /\ ~Terminal(E)
               => /\ r.err = "ok"
                  /\ r.st[e].status = "cancelled"
                  /\ reason # "" => r.st[e].cancellationReason = reason
                  /\ reason = "" => r.st[e].cancellationReason = "No reason provided"
                  /\ r.st[e] = [E EXCEPT !.status = "cancelled",
                                  !.cancellationReason = r.st[e].cancellationReason]
                  /\ t \in Keys
                  /\ t # e
                     => r.st[t] = IF ledger[t].status = "completed" THEN ledger[t]
                                  ELSE [ledger[t] EXCEPT !.status = "cancelled"]
                  /\ \A k \in Keys \ {e, t} : r.st[k] = ledger[k]
                  /\ \A k \in Keys : /\ r.st[k].ownerId = ledger[k].ownerId
                                     /\ r.st[k].history = ledger[k].history

\* an escrow that was ready for completion has been cancelled with a reason,
\* and its transfer with it
C22_Witness ==
  \E e \in Keys :
    /\ IsEscrow(ledger[e]) /\ ledger[e].status = "cancelled"
    /\ ledger[e].cancellationReason = "r"
    /\ AllDeclaredMet(ledger[e]) /\ ledger[e].payments # <<>>
    /\ IsTransfer(ledger[ledger[e].transactionId])
    /\ ledger[ledger[e].transactionId].status = "cancelled"

C24_AddDocumentEffect ==
  \A e \in Keys :
    Exists(ledger, e)
    => LET r == AddDocumentTx(ledger, e, "doc")
           E == ledger[e]
       IN /\ ~Open(E) => r.err = "InvalidState" /\ r.st = ledger
          /\ Open(E)
             => /\ r.err = "ok"
                /\ OneAppended(E.documents, r.st[e].documents)
                /\ r.st[e].status = E.status
                /\ r.st[e].conditions_met = E.conditions_met
                /\ r.st[e].payments = E.payments
                /\ r.st[e].verifications = E.verifications
                /\ r.st[e] = [E EXCEPT !.documents = r.st[e].documents]
                /\ \A k \in Keys \ {e} : r.st[k] = ledger[k]

\* a document was added to an escrow that already had a payment and a
\* verification and is still in progress
C24_Witness ==
  \E e \in Keys :
    /\ IsEscrow(ledger[e]) /\ ledger[e].status = "in_progress"
    /\ ledger[e].documents # <<>> /\ ledger[e].payments # <<>>
    /\ ledger[e].verifications # <<>>

\* C25: CreateTransaction refuses, writing nothing, unless the property
\* exists and its ownerId is the seller (ownership-mismatch when the owner
\* differs; for a property without a record any error is accepted here), and
\* a CreateTransaction that commits stores a transfer with status pending and
\* leaves the property record as it was.
C25_CreateTransactionEffect ==
  [][\A t \in TransactionIds, p \in Keys, s \in Owners, terms \in TransferTerms :
       LET r == CreateTransactionTx(ledger, t, p, s, terms.buyerId, terms.price)
       IN /\ ~Exists(ledger, p) => r.err # "ok" /\ r.st = ledger
          /\ Exists(ledger, p) /\ ledger[p].ownerId # s
             => r.err = "OwnershipMismatch" /\ r.st = ledger
          /\ Commits(r)
             => /\ ledger'[t].status = "pending"
                /\ ledger'[p] = ledger[p]]_vars

\* C26: CancelTransaction on a record whose status is not pending throws the
\* invalid-state error and writes nothing; on a pending record it succeeds,
\* sets the status to cancelled and stores the reason (the default text when
\* the reason is empty), and the record it writes is a transfer: no property,
\* no escrow and no other key changes.
C26_CancelTransactionEffect ==
  \A t \in Keys :
    Exists(ledger, t)
    => \A reason \in Reasons :
         LET r == CancelTransactionTx(ledger, t, reason)
             T == ledger[t]
         IN /\ T.status # "pending" => r.err = "InvalidState" /\ r.st = ledger
            /\ T.status = "pending"
               => /\ r.err = "ok"
                  /\ IsTransfer(T)
                  /\ r.st[t].status = "cancelled"
                  /\ reason # "" => r.st[t].cancellationReason = reason
                  /\ reason = "" => r.st[t].cancellationReason = "No reason provided"
                  /\ r.st[t] = [T EXCEPT !.status = "cancelled",
                                  !.cancellationReason = r.st[t].cancellationReason]
                  /\ \A k \in Keys \ {t} : r.st[k] = ledger[k]

\* a transfer was cancelled with a reason while an escrow that names it is
\* still open and the property still belongs to the seller
C26_Witness ==
  \E t \in Keys, e \in Keys :
    /\ IsTransfer(ledger[t]) /\ ledger[t].status = "cancelled"
    /\ ledger[t].cancellationReason = "r"
    /\ IsEscrow(ledger[e]) /\ ledger[e].transactionId = t /\ Open(ledger[e])
    /\ IsProperty(ledger[ledger[t].propertyId])
    /\ ledger[ledger[t].propertyId].ownerId = ledger[t].sellerId

\* C27: TransferProperty on a record whose ownerId is not the expected current
\* owner throws the ownership-mismatch error and writes nothing; otherwise the
\* same invocation appends exactly one history entry, from the expected owner
\* to the new owner, sets ownerId to the new owner and changes nothing else.
C27_TransferPropertyEffect ==
  \A p \in Keys, currentOwnerId \in Owners, newOwnerId \in Owners :
    Exists(ledger, p)
    => LET r == TransferPropertyTx(ledger, p, currentOwnerId, newOwnerId)
           P == ledger[p]
           h == r.st[p].history
       IN /\ P.ownerId # currentOwnerId
             => r.err = "OwnershipMismatch" /\ r.st = ledger
          /\ P.ownerId = currentOwnerId
             => /\ r.err = "ok"
                /\ OneAppended(P.history, h)
                /\ h[Len(h)].fromOwnerId = currentOwnerId
                /\ h[Len(h)].toOwnerId = newOwnerId
                /\ r.st[p].ownerId = newOwnerId
                /\ r.st[p] = [P EXCEPT !.history = h, !.ownerId = newOwnerId]
                /\ \A k \in Keys \ {p} : r.st[k] = ledger[k]

\* a property changed hands by TransferProperty: its newest history entry
\* names no escrow and leads from another owner to the current one
C27_Witness ==
  \E p \in Keys :
    /\ IsProperty(ledger[p]) /\ ledger[p].history # <<>>
    /\ LET last == ledger[p].history[Len(ledger[p].history)]
       IN /\ last.escrowId = Undef
          /\ last.toOwnerId = ledger[p].ownerId
          /\ last.fromOwnerId # last.toOwnerId

\* detail maps that overwrite a field, add a field, or repeat one
UpdateInputs ==
  DetailMaps \cup {[f \in {"area"} |-> 2], [f \in {"rooms"} |-> 1]}

\* C28: UpdateProperty on a property succeeds; afterwards every given field
\* has the given value, every other field of the details keeps its value,
\* the details have no further field, and ownerId, history, status and all
\* other fields of the property, and every other record, are unchanged.
C28_UpdatePropertyEffect ==
  \A p \in Keys, newDetails \in UpdateInputs :
    IsProperty(ledger[p])
    => LET r == UpdatePropertyTx(ledger, p, newDetails)
           P == ledger[p]
           d == r.st[p].details
       IN /\ r.err = "ok"
          /\ DOMAIN d = (DOMAIN P.details) \cup (DOMAIN newDetails)
          /\ \A f \in DOMAIN newDetails : d[f] = newDetails[f]
          /\ \A f \in (DOMAIN P.details) \ (DOMAIN newDetails) : d[f] = P.details[f]
          /\ r.st[p].ownerId = P.ownerId
          /\ r.st[p].history = P.history
          /\ r.st[p].status = P.status
          /\ r.st[p] = [P EXCEPT !.details = d]
          /\ \A k \in Keys \ {p} : r.st[k] = ledger[k]

\* the details of a property that has changed hands were updated
C28_Witness ==
  \E p \in Keys :
    /\ IsProperty(ledger[p]) /\ ledger[p].history # <<>>
    /\ DOMAIN ledger[p].details # {}

\* the simulated invocation in slot s is decided (committed or rejected) by
\* this step
Decided(s) == pending[s].live /\ ~pending'[s].live

C30_ExecutionsAgree ==
  \A now1 \in Clock, now2 \in Clock :
    /\ \A t \in TransactionIds, p \in PropertyIds, s \in Owners,
          terms \in TransferTerms :
         ExecuteCreateTransaction(ledger, t, p, s, terms.buyerId, terms.price, now1)
         = ExecuteCreateTransaction(ledger, t, p, s, terms.buyerId, terms.price, now2)
    /\ \A e \in EscrowIds, p \in PropertyIds, s \in Owners, terms \in EscrowTerms :
         ExecuteCreateEscrow(ledger, e, terms.transactionId, p, s, terms.buyerId,
                             terms.price, terms.conditions, now1)
         = ExecuteCreateEscrow(ledger, e, terms.transactionId, p, s, terms.buyerId,
                               terms.price, terms.conditions, now2)
    /\ \A e \in EscrowIds :
         ExecuteCompleteEscrow(ledger, e, now1) = ExecuteCompleteEscrow(ledger, e, now2)

\* C31: every stored transfer has a price greater than zero, and so has every
\* stored escrow.  Stated for the keys that never hold a property.
C31_PricePositive ==
  \A k \in Keys \ PropertyIds :
    IsTransfer(ledger[k]) \/ IsEscrow(ledger[k]) => ledger[k].price > 0

\* this step is the CompleteTransaction of the transfer under k or the
\* CompleteEscrow of the escrow under k
Completes(k) ==
  \/ IsTransfer(ledger[k]) /\ Commits(CompleteTransactionTx(ledger, k))
  \/ IsEscrow(ledger[k]) /\ Commits(CompleteEscrowTx(ledger, k))

\* C32: when a transfer or an escrow with seller S completes, the property's
\* history holds no transfer from S to another owner that was appended after
\* the record was created.
C32_StaleSaleNeverCompletes ==
  [][\A k \in Keys :
       Completes(k)
       => LET h == ledger[ledger[k].propertyId].history
          IN \A i \in (born[k] + 1) .. Len(h) :
               ~(/\ h[i].fromOwnerId = ledger[k].sellerId
                 /\ h[i].toOwnerId # ledger[k].sellerId)]_vars

\* C33: the docType of the record under a key never changes once the key
\* holds a record, and every escrow's transactionId names a transfer and its
\* propertyId a property.
C33_KindsNeverMix ==
  [][/\ \A k \in Keys :
          Exists(ledger, k) => ledger'[k].docType = ledger[k].docType
     /\ \A e \in Keys :
          IsEscrow(ledger'[e])
          => /\ IsTransfer(ledger'[ledger'[e].transactionId])
             /\ IsProperty(ledger'[ledger'[e].propertyId])]_vars

\* C34: an escrow that CreateEscrow stores with the id of a transfer as its
\* transactionId has the propertyId, sellerId and buyerId of that transfer,
\* and the transfer is pending at that moment.
C34_EscrowMatchesTransfer ==
  [][\A e \in Keys :
       /\ CreatesEscrow(e) /\ ledger'[e] # ledger[e]
       /\ IsTransfer(ledger[ledger'[e].transactionId])
       => LET E == ledger'[e]
              T == ledger[E.transactionId]
          IN /\ E.propertyId = T.propertyId
             /\ E.sellerId = T.sellerId
             /\ E.buyerId = T.buyerId
             /\ T.status = "pending"]_vars

\* the ledgers one accepted AddPayment, AddDocument or MarkConditionMet of a
\* declared condition on escrow e leads to
PermittedOn(L, e) ==
  {r.st : r \in {x \in {AddPaymentTx(L, e, amount) : amount \in Amounts}
                     \cup {AddDocumentTx(L, e, "doc")}
                     \cup {MarkConditionMetTx(L, e, c, roundsBelow) :
                             c \in L[e].conditions, roundsBelow \in BOOLEAN} :
                   x.err = "ok"}}

RECURSIVE CanBecomeReady(_, _, _)
CanBecomeReady(L, e, n) ==
  \/ L[e].status = "ready_for_completion"
  \/ n > 0 /\ \E M \in PermittedOn(L, e) : CanBecomeReady(M, e, n - 1)

\* C35: an escrow in created or in_progress whose payments total its price
\* within the tolerance and whose declared conditions are all met, an empty
\* declaration included, is ready_for_completion after at most two accepted
\* calls of AddPayment, AddDocument and MarkConditionMet of a declared
\* condition on it.
C35_CanBecomeReady ==
  \A e \in Keys :
    LET E == ledger[e]
    IN /\ IsEscrow(E) /\ Open(E)
       /\ Abs(SumAmounts(E.payments) - E.price) < Tolerance
       /\ \A c \in E.conditions : E.conditions_met[c] = TRUE
       => CanBecomeReady(ledger, e, 2)

\* C36: every escrow that is ready_for_completion or completed has at least
\* one recorded payment, and no step takes an escrow from created to
\* ready_for_completion.
C36_ReadyOnlyAfterProgress ==
  [][\A e \in Keys :
       /\ IsEscrow(ledger'[e])
            /\ ledger'[e].status \in {"ready_for_completion", "completed"}
          => Len(ledger'[e].payments) >= 1
       /\ ~(/\ IsEscrow(ledger[e]) /\ ledger[e].status = "created"
            /\ IsEscrow(ledger'[e])
            /\ ledger'[e].status = "ready_for_completion")]_vars

\* C37: in every step other than a CreateEscrow on its id, an escrow keeps the
\* keys of conditionsMet it had, every condition that was met stays met, and
\* its payments, documents and verifications before the step are prefixes of
\* those after it.
C37_MarksMonotonic ==
  [][\A e \in Keys :
       IsEscrow(ledger[e]) /\ IsEscrow(ledger'[e]) /\ ~CreatesEscrow(e)
       => LET E == ledger[e]
              F == ledger'[e]
          IN /\ DOMAIN F.conditions_met = DOMAIN E.conditions_met
             /\ \A c \in DOMAIN E.conditions_met :
                  E.conditions_met[c] = TRUE => F.conditions_met[c] = TRUE
             /\ IsPrefix(E.payments, F.payments)
             /\ IsPrefix(E.documents, F.documents)
             /\ IsPrefix(E.verifications, F.verifications)]_vars

\* C38: in every property's history the first entry leaves the original
\* registrant and every later entry leaves the owner the entry before it
\* went to.
C38_ChainContinuous ==
  \A p \in Keys :
    IsProperty(ledger[p])
    => LET h == ledger[p].history
       IN \A i \in 1 .. Len(h) :
            h[i].fromOwnerId = IF i = 1 THEN registrant[p] ELSE h[i - 1].toOwnerId

\* the results of the five operations that work on an existing escrow e
EscrowOperations(L, e) ==
  {AddPaymentTx(L, e, amount) : amount \in Amounts}
    \cup {AddDocumentTx(L, e, "doc")}
    \cup {MarkConditionMetTx(L, e, c, roundsBelow) :
            c \in ConditionIds, roundsBelow \in BOOLEAN}
    \cup {CompleteEscrowTx(L, e)}
    \cup {CancelEscrowTx(L, e, reason, undefinedKeyFails) :
            reason \in Reasons, undefinedKeyFails \in BOOLEAN}

Identity(E) ==
  <<E.docType, E.escrowId, E.transactionId, E.propertyId, E.sellerId,
    E.buyerId, E.price, E.conditions>>

\* C39: an accepted AddPayment, AddDocument, MarkConditionMet, CompleteEscrow
\* or CancelEscrow on the escrow under e leaves the escrowId, transactionId,
\* propertyId, sellerId, buyerId, price and declared conditions of every
\* escrow as they were, and leaves every escrow other than e unchanged.
C39_IdentityFixed ==
  \A e \in Keys :
    IsEscrow(ledger[e])
    => \A r \in EscrowOperations(ledger, e) :
         r.err = "ok"
         => \A k \in Keys :
              IsEscrow(ledger[k])
              => /\ Identity(r.st[k]) = Identity(ledger[k])
                 /\ k # e => r.st[k] = ledger[k]

====
